---- MODULE Spec2Model ----
(***************************************************************************)
(* Model of the insurance-rag search core: the Input Gate (isGibberish),   *)
(* the Normalizer (normalizeProductName), the Retrieval Policy Engine      *)
(* (hybridRetrieve), the Context Assembler (buildContext), the search      *)
(* request handler with its name-keyed cache, and the toggle-status        *)
(* handler with its dual-path cache invalidation.                          *)
(*                                                                         *)
(* Strings are sequences of characters.  A character is a one-element      *)
(* token: ASCII characters stand for themselves, other code points are     *)
(* written "Uxxxx" (their UTF-16 code unit).                               *)
(***************************************************************************)
EXTENDS Integers, Sequences, FiniteSets, TLC

VARIABLES
    gq,          \* SpecGate: the query handed to isGibberish
    gres,        \* SpecGate: the result of isGibberish, once called
    rin,         \* SpecRetrieve: the inputs of one hybridRetrieve call
    rout,        \* SpecRetrieve: its result, once called
    nin,         \* SpecNormalize: a name and a variant of it
    nout,        \* SpecNormalize: their normal forms, once computed
    active,      \* products.is_active, by product id
    cache,       \* the rows of table search_cache
    nextId,      \* the sequence of search_cache.id
    now,         \* the clock, in hours
    enableCache, \* process.env.ENABLE_SEARCH_CACHE === 'true'
    req,         \* the search requests in flight or answered, by worker
    tog,         \* the toggle-status request in flight or answered
    pendingHits, \* hit_count update queries built by a cache hit and not awaited
    issued,      \* the number of requests received so far
    adm,         \* the DELETE /api/admin/cache request in flight or answered
    rev,         \* the revision of the clause content of each product
    rateLimitStore, \* SpecRate: the Map of verify-token, by client IP
    rateNow,     \* SpecRate: Date.now(), in units of five minutes
    failures401, \* SpecRate: the times of the failed attempts of each IP
    verified,    \* SpecRate: the last verify-token request and its answer
    adminToken,  \* SpecRate: whether process.env.ADMIN_TOKEN is set
    cin,         \* SpecContext: the rows handed to buildContext
    cout         \* SpecContext: its result, once called

gateVars == <<gq, gres>>
retrVars == <<rin, rout>>
normVars == <<nin, nout>>
rateVars == <<rateLimitStore, rateNow, failures401, verified, adminToken>>
ctxVars == <<cin, cout>>
mainVars == <<active, cache, nextId, now, enableCache, req, tog, pendingHits, issued,
              adm, rev>>
vars == <<gq, gres, rin, rout, nin, nout, active, cache, nextId, now, enableCache, req, tog,
          pendingHits, issued, adm, rev, rateLimitStore, rateNow, failures401, verified,
          adminToken, cin, cout>>

(***************************************************************************)
(* Characters and their classes, as the regular expressions of the source  *)
(* read them.                                                              *)
(***************************************************************************)
\* U3000 ideographic space, U5B89 / U5FC3 / U5EB7 CJK ideographs,
\* UFF01 full-width exclamation mark, UFF08 full-width left parenthesis,
\* U3002 ideographic full stop, U210C black-letter capital H.
AsciiDigits == {"0", "1", "2", "3", "4", "5", "6", "7", "8", "9"}
AsciiLower == {"a", "b", "h", "p", "z"}
AsciiUpper == {"A", "B", "H", "P", "Z"}
AsciiLetters == AsciiLower \cup AsciiUpper
\* \x21-\x2F \x3A-\x40 \x5B-\x60 \x7B-\x7E (U0022 is the double quote, U0027 the
\* apostrophe; the members this model uses)
AsciiPunct == {"!", "U0022", "#", "U0027", "(", ")", "*", "+", ",", "-", ".", "/",
               ":", ";", "=", "?", "@", "[", "]", "_"}
\* \s of a JavaScript regular expression (the members this model uses)
Whitespace == {" ", "U0009", "U000A", "U000D", "U3000", "U00A0", "U2028", "U2029"}
\* what the pattern . does not match
LineTerminators == {"U000A", "U000D", "U2028", "U2029"}

\* /^[class]+$/.test(s)
AllIn(s, class) == Len(s) >= 1 /\ \A i \in 1..Len(s) : s[i] \in class

\* /^(.)\1{3,}$/.test(s)
RepeatedChar(s) ==
    /\ Len(s) >= 4
    /\ s[1] \notin LineTerminators
    /\ \A i \in 1..Len(s) : s[i] = s[1]

\* all strings over alphabet of length 0..n
RECURSIVE StringsUpTo(_, _)
StringsUpTo(alphabet, n) ==
    IF n = 0 THEN {<<>>}
    ELSE LET shorter == StringsUpTo(alphabet, n - 1)
         IN shorter \cup {Append(s, c) : s \in {t \in shorter : Len(t) = n - 1},
                                         c \in alphabet}

(***************************************************************************)
(* Input Gate.  reason stands for the message text: the last two rules    *)
(* answer with the same message.                                           *)
(***************************************************************************)
\* the gate without its rule on repeated characters
isGibberishNoRepeatRule(query) ==
    IF Len(query) < 2 THEN [isGibberish |-> TRUE, reason |-> "MSG_TOO_SHORT"]
    ELSE IF AllIn(query, AsciiDigits)
        THEN [isGibberish |-> TRUE, reason |-> "MSG_PURE_DIGITS"]
    ELSE IF AllIn(query, AsciiLetters) /\ Len(query) < 3
        THEN [isGibberish |-> TRUE, reason |-> "MSG_INCOMPLETE_NAME"]
    ELSE IF AllIn(query, Whitespace \cup AsciiPunct)
        THEN [isGibberish |-> TRUE, reason |-> "MSG_INVALID_NAME"]
    ELSE [isGibberish |-> FALSE, reason |-> "NONE"]

isGibberish(query) ==
    IF Len(query) < 2 THEN [isGibberish |-> TRUE, reason |-> "MSG_TOO_SHORT"]
    ELSE IF AllIn(query, AsciiDigits)
        THEN [isGibberish |-> TRUE, reason |-> "MSG_PURE_DIGITS"]
    ELSE IF AllIn(query, AsciiLetters) /\ Len(query) < 3
        THEN [isGibberish |-> TRUE, reason |-> "MSG_INCOMPLETE_NAME"]
    ELSE IF AllIn(query, Whitespace \cup AsciiPunct)
        THEN [isGibberish |-> TRUE, reason |-> "MSG_INVALID_NAME"]
    ELSE IF RepeatedChar(query)
        THEN [isGibberish |-> TRUE, reason |-> "MSG_INVALID_NAME"]
    ELSE [isGibberish |-> FALSE, reason |-> "NONE"]

(***************************************************************************)
(* Normalizer                                                              *)
(***************************************************************************)
\* String.prototype.toLowerCase, per character
ToLowerChar(c) ==
    CASE c = "A" -> "a"
      [] c = "B" -> "b"
      [] c = "H" -> "h"
      [] c = "P" -> "p"
      [] c = "Z" -> "z"
      [] OTHER -> c

\* String.prototype.normalize(NFKC), per character: the compatibility
\* decomposition of the code points this model uses
NFKCChar(c) ==
    CASE c = "UFF01" -> <<"!">>
      [] c = "UFF08" -> <<"(">>
      [] c = "UFF09" -> <<")">>
      [] c = "UFF0D" -> <<"-">>
      [] c = "U3000" -> <<" ">>
      [] c = "U00A0" -> <<" ">>
      [] c = "U210C" -> <<"H">>
      [] c = "UFF0E" -> <<".">>
      [] c = "UFF0C" -> <<",">>
      [] c = "UFF3B" -> <<"[">>
      [] c = "UFF3D" -> <<"]">>
      [] OTHER -> <<c>>

\* the character class of the second replace of normalizeProductName
StripPunct == {"(", ")", "UFF08", "UFF09", "UFF3B", "UFF3D", "U3010", "U3011", "[", "]",
               "U00B7", "U2022", "UFF0E", "U30FB", "U3002", "U3001", "UFF0C", ",", ".",
               "_", "/", ":", "U0027", "U0022", "-"}

RECURSIVE FlatMap(_, _)
FlatMap(s, i) ==
    IF i > Len(s) THEN <<>> ELSE NFKCChar(s[i]) \o FlatMap(s, i + 1)

Remove(s, class) == SelectSeq(s, LAMBDA c : c \notin class)

normalizeProductName(name) ==
    LET lowered == [i \in 1..Len(name) |-> ToLowerChar(name[i])]
        nfkc == FlatMap(lowered, 1)
        noSpace == Remove(nfkc, Whitespace)
    IN Remove(noSpace, StripPunct)

getCacheKey(productName) == normalizeProductName(productName)

\* String.prototype.includes
Includes(s, t) ==
    \E i \in 0..(Len(s) - Len(t)) : \A j \in 1..Len(t) : s[i + j] = t[j]

\* SQL ILIKE '%t%' (neither string holds the wildcards % and _)
ILikeContains(s, t) ==
    Includes([i \in 1..Len(s) |-> ToLowerChar(s[i])],
             [i \in 1..Len(t) |-> ToLowerChar(t[i])])

(***************************************************************************)
(* The registry (table products) and the clause store (table clauses).     *)
(* Names and clauses are fixed; products.is_active is state.               *)
(***************************************************************************)
\* null in a numeric column or field (ids start at 1)
NullId == 0
\* null or the empty string where the source tests a name for truthiness
NoName == <<>>

ProductIds == {1, 2, 3}

\* 1: U5B89 U5FC3;  2: the same two ideographs, a space and "A" (its
\* normalized name contains the normalized name of 1);  3: U5EB7 U5B81
ProductName(id) ==
    CASE id = 1 -> <<"U5B89", "U5FC3">>
      [] id = 2 -> <<"U5B89", "U5FC3", " ", "A">>
      [] id = 3 -> <<"U5EB7", "U5B81">>

ClauseIds == {1, 2, 3, 4}

\* clauses.product_id
ClauseProduct(c) ==
    CASE c = 1 -> 1
      [] c = 2 -> 2
      [] c = 3 -> 3
      [] c = 4 -> 1

Min(a, b) == IF a < b THEN a ELSE b

\* all orderings of a finite set
RECURSIVE Orderings(_)
Orderings(S) ==
    IF S = {} THEN {<<>>}
    ELSE UNION {{<<x>> \o s : s \in Orderings(S \ {x})} : x \in S}

Range(s) == {s[i] : i \in 1..Len(s)}

\* a finite set of numbers in ascending order
RECURSIVE SortedIds(_)
SortedIds(S) ==
    IF S = {} THEN <<>>
    ELSE LET m == CHOOSE x \in S : \A y \in S : x <= y
         IN <<m>> \o SortedIds(S \ {m})

\* a row of match_clauses: a clause and its similarity to the query embedding
VectorRow(c, sim) ==
    [id |-> c, product_id |-> ClauseProduct(c), similarity |-> sim[c]]

\* a row of the fallback select on clauses: no similarity
PlainRow(c) == [id |-> c, product_id |-> ClauseProduct(c)]

\* RPC match_clauses: the clauses at or above the threshold, by descending
\* similarity, cut to match_count; the order among equal similarities is the
\* store's.  sim[c] is the similarity of clause c to the query embedding.
match_clauses(sim, match_threshold, match_count) ==
    LET hits == {c \in ClauseIds : sim[c] >= match_threshold}
        sorted == {s \in Orderings(hits) :
                     \A i, j \in 1..Len(s) : i < j => sim[s[i]] >= sim[s[j]]}
    IN {[i \in 1..Min(match_count, Len(s)) |-> VectorRow(s[i], sim)] : s \in sorted}

\* select id, name from products where is_active: the listing orders
ListActive(act) == Orderings({p \in ProductIds : act[p]})

\* select id, name from products where name ilike %query% limit 3
ProductsLike(query) ==
    LET found == {p \in ProductIds : ILikeContains(ProductName(p), query)}
    IN UNION {Orderings(S) : S \in {T \in SUBSET found :
                                      Cardinality(T) = Min(3, Cardinality(found))}}

\* the clause select without its product filter
ClausesOfAnyProduct(likeIds, matchCount) ==
    LET found == ClauseIds
    IN UNION {{[i \in 1..Len(s) |-> PlainRow(s[i])] : s \in Orderings(S)} :
              S \in {T \in SUBSET found :
                       Cardinality(T) = Min(matchCount, Cardinality(found))}}

\* select id, product_id, content from clauses where product_id in likeIds
\* limit matchCount
ClausesOf(likeIds, matchCount) ==
    LET found == {c \in ClauseIds : ClauseProduct(c) \in likeIds}
    IN UNION {{[i \in 1..Len(s) |-> PlainRow(s[i])] : s \in Orderings(S)} :
              S \in {T \in SUBSET found :
                       Cardinality(T) = Min(matchCount, Cardinality(found))}}

(***************************************************************************)
(* Retrieval Policy Engine                                                 *)
(***************************************************************************)
\* the filter without its membership test
IsPriorityRowIgnoringIds(r, priorityProductIds) == r.product_id # NullId

\* r.product_id && priorityProductIds.includes(r.product_id)
IsPriorityRow(r, priorityProductIds) ==
    r.product_id # NullId /\ r.product_id \in Range(priorityProductIds)

\* (r.similarity || 0)
SimOrZero(r) == IF "similarity" \in DOMAIN r THEN r.similarity ELSE 0

\* the comparator with the similarities subtracted the other way round
RerankBeforeAscending(a, b, priorityProductIds) ==
    LET aMatch == IsPriorityRow(a, priorityProductIds)
        bMatch == IsPriorityRow(b, priorityProductIds)
    IN IF aMatch /\ ~bMatch THEN TRUE
       ELSE IF ~aMatch /\ bMatch THEN FALSE
       ELSE SimOrZero(a) - SimOrZero(b) < 0

\* the comparator of rows.sort is negative: a goes before b
RerankBefore(a, b, priorityProductIds) ==
    LET aMatch == IsPriorityRow(a, priorityProductIds)
        bMatch == IsPriorityRow(b, priorityProductIds)
    IN IF aMatch /\ ~bMatch THEN TRUE
       ELSE IF ~aMatch /\ bMatch THEN FALSE
       ELSE SimOrZero(b) - SimOrZero(a) < 0

\* Array.prototype.sort is stable: x goes in before the first row it precedes
RECURSIVE SortRows(_, _)
SortRows(rows, priorityProductIds) ==
    IF rows = <<>> THEN <<>>
    ELSE LET n == Len(rows)
             x == rows[n]
             done == SortRows(SubSeq(rows, 1, n - 1), priorityProductIds)
             later == {i \in 1..Len(done) : RerankBefore(x, done[i], priorityProductIds)}
             at == IF later = {} THEN Len(done) + 1
                   ELSE CHOOSE i \in later : \A j \in later : i <= j
         IN SubSeq(done, 1, at - 1) \o <<x>> \o SubSeq(done, at, Len(done))

\* rows.slice(0, n)
Slice(rows, n) == SubSeq(rows, 1, Min(n, Len(rows)))

RetrievalFailures == {"none", "embed", "match", "prodLike", "clauses"}

\* What the collaborators can answer to one hybridRetrieve call: the listing of
\* the active products, the similarity hits, the products the fallback ilike
\* finds and their clauses, and which call, if any, errors.
RetrievalEnvs(query, act, sim, matchThreshold, matchCount) ==
    UNION {UNION {
        {[allProducts |-> l, failure |-> f, matches |-> m, prodLike |-> pl,
          clauseRows |-> cr] :
            l \in ListActive(act), f \in RetrievalFailures,
            cr \in ClausesOf(Range(pl), matchCount)} :
        pl \in ProductsLike(query)} :
        m \in match_clauses(sim, matchThreshold, matchCount * 2)}

\* the answers with the product listing not filtered by is_active
OrderedEnvsListingAll(query, act, sim, matchThreshold, matchCount) ==
    LET found == {p \in ProductIds : ILikeContains(ProductName(p), query)}
        likeIds == Slice(SortedIds(found), 3)
        clauseIds == SortedIds({c \in ClauseIds : ClauseProduct(c) \in Range(likeIds)})
        clauseRows == Slice([i \in 1..Len(clauseIds) |-> PlainRow(clauseIds[i])],
                            matchCount)
    IN {[allProducts |-> SortedIds(ProductIds), failure |-> f,
         matches |-> m, prodLike |-> likeIds, clauseRows |-> clauseRows] :
            f \in RetrievalFailures,
            m \in match_clauses(sim, matchThreshold, matchCount * 2)}

\* the answers in which every listing comes in id order
OrderedEnvs(query, act, sim, matchThreshold, matchCount) ==
    LET found == {p \in ProductIds : ILikeContains(ProductName(p), query)}
        likeIds == Slice(SortedIds(found), 3)
        clauseIds == SortedIds({c \in ClauseIds : ClauseProduct(c) \in Range(likeIds)})
        clauseRows == Slice([i \in 1..Len(clauseIds) |-> PlainRow(clauseIds[i])],
                            matchCount)
    IN {[allProducts |-> SortedIds({p \in ProductIds : act[p]}), failure |-> f,
         matches |-> m, prodLike |-> likeIds, clauseRows |-> clauseRows] :
            f \in RetrievalFailures,
            m \in match_clauses(sim, matchThreshold, matchCount * 2)}

NoRpcs == [list |-> 0, embed |-> 0, match |-> 0, like |-> 0, clauses |-> 0,
           cacheRead |-> 0, names |-> 0, gen |-> 0, cacheWrite |-> 0]

hybridRetrieve(query, matchCount, env) ==
    LET queryNorm == normalizeProductName(query)
        allProducts == env.allProducts
        NameMatches(p) ==
            LET nameNorm == normalizeProductName(ProductName(p))
            IN Includes(nameNorm, queryNorm) \/ Includes(queryNorm, nameNorm)
        priorityProductIds == SelectSeq(allProducts, NameMatches)
        matchedProductName ==
            IF priorityProductIds = <<>> THEN NoName
            ELSE ProductName(priorityProductIds[1])
        Result(rows, strategy, rpcs) ==
            [rows |-> rows, priorityProductIds |-> priorityProductIds,
             matchedProductName |-> matchedProductName, strategy |-> strategy,
             rpcs |-> rpcs]
        r1 == [NoRpcs EXCEPT !.list = 1, !.embed = 1]
        r2 == [r1 EXCEPT !.match = 1]
        r3 == [r2 EXCEPT !.like = 1]
        r4 == [r3 EXCEPT !.clauses = 1]
        matches == env.matches
        priorityRows == SelectSeq(matches,
                                  LAMBDA r : IsPriorityRow(r, priorityProductIds))
        staged ==
            IF priorityProductIds # <<>> /\ matches # <<>>
            THEN IF priorityRows # <<>>
                 THEN [rows |-> Slice(priorityRows, matchCount),
                       strategy |-> "PRODUCT_NAME_MATCH"]
                 ELSE [rows |-> Slice(SortRows(matches, priorityProductIds), matchCount),
                       strategy |-> "PRODUCT_NAME_RERANK"]
            ELSE [rows |-> matches, strategy |-> "VECTOR_ONLY"]
    IN IF env.failure = "embed"
       THEN \* embedText throws: the catch block
            [rows |-> <<>>, priorityProductIds |-> <<>>, matchedProductName |-> NoName,
             strategy |-> "FAILED", rpcs |-> r1]
       ELSE IF env.failure = "match" THEN Result(<<>>, "FAILED", r2)
       ELSE IF staged.rows # <<>> THEN Result(staged.rows, staged.strategy, r2)
       ELSE IF env.failure = "prodLike" THEN Result(<<>>, "FAILED", r3)
       ELSE IF env.prodLike = <<>> THEN Result(<<>>, "NO_RESULTS", r3)
       ELSE IF env.failure = "clauses" THEN Result(<<>>, "FAILED", r4)
       ELSE Result(env.clauseRows,
                   IF env.clauseRows # <<>> THEN "FALLBACK_ILIKE" ELSE "NO_RESULTS", r4)

(***************************************************************************)
(* Context Assembler, Extraction Gateway and Schema Validator              *)
(***************************************************************************)
\* clauses.content, trimmed: no clause of the table is blank
ClauseContent(c) == <<"t", "x", "t">>

\* buildContext: the Source list (clause ids, in row order) and the ClauseMap
\* (its keys; the snippet and the product name of a key are those of the clause)
buildContext(rows) ==
    LET kept == SelectSeq(rows, LAMBDA r : ClauseContent(r.id) # <<>>)
    IN [sources |-> [i \in 1..Len(kept) |-> kept[i].id],
        clauseMap |-> {kept[i].id : i \in 1..Len(kept)}]

\* the reserved fallback marker, "[" U6761 U6B3E U672A U8BF4 U660E "]"
FallbackMarker == <<"[", "U6761", "U6B3E", "U672A", "U8BF4", "U660E", "]">>
SomeText == <<"t", "x", "t">>

Cited(value, sourceClauseId) == [value |-> value, sourceClauseId |-> sourceClauseId]

\* what JSON.parse makes of the text of the generation model, when it is an
\* object of the card's shape
LLMCard(productName, overview, targetAudience, coreCoverage, exclusions) ==
    [shape |-> "object", productName |-> productName, overview |-> overview,
     targetAudience |-> targetAudience, coreCoverage |-> coreCoverage,
     exclusions |-> exclusions]

\* texts the generation model can return: cards that cite clause 1 or clause 3
\* (retrieved or not), a card that pairs the marker with a source, a card of
\* markers only; an object of another shape; the JSON text null; no JSON at all
GroundedCard(p, c) ==
    LLMCard(Cited(ProductName(p), c), Cited(SomeText, c), Cited(FallbackMarker, NullId),
            <<Cited(SomeText, c)>>, <<Cited(SomeText, c)>>)
MarkerWithSourceCard ==
    LLMCard(Cited(ProductName(1), 1), Cited(SomeText, 1), Cited(FallbackMarker, 1),
            <<>>, <<Cited(FallbackMarker, 1)>>)
AllMarkerCard ==
    LLMCard(Cited(FallbackMarker, NullId), Cited(FallbackMarker, NullId),
            Cited(FallbackMarker, NullId), <<>>, <<>>)
WrongShape == [shape |-> "object", answer |-> SomeText]
JsonNull == [shape |-> "null"]
NotJson == [shape |-> "notJson"]
LLMTexts == {GroundedCard(1, 1), GroundedCard(3, 3), MarkerWithSourceCard, AllMarkerCard,
             WrongShape, JsonNull, NotJson}

\* the catch of JSON.parse: the wrapper object, whose fields are strings
PatchedObject ==
    [shape |-> "object", productName |-> <<>>, overview |-> <<>>, coreCoverage |-> <<>>,
     exclusions |-> <<>>, targetAudience |-> <<>>]

\* JSON.parse(text), with its catch
ParseText(text) == IF text.shape = "notJson" THEN PatchedObject ELSE text

\* the debug fields, then sources and clauseMap, set on the parsed object
Assemble(parsed, ctx, debug) ==
    [body |-> parsed, sources |-> ctx.sources, clauseMap |-> ctx.clauseMap,
     debugFields |-> debug]

\* SourcedFieldSchema, CoverageItemSchema, ExclusionItemSchema: an object with a
\* value and a sourceClauseId (a number or null)
SourcedFieldSchema(f) == {"value", "sourceClauseId"} \subseteq DOMAIN f

\* SearchSuccessResponseSchema.safeParse(jsonOut).success: the fields are
\* there and have their shapes; no field is compared with another
SearchSuccessResponseSchema(jsonOut) ==
    LET b == jsonOut.body
    IN /\ b.shape = "object"
       /\ {"productName", "overview", "targetAudience", "coreCoverage", "exclusions"}
            \subseteq DOMAIN b
       /\ SourcedFieldSchema(b.productName)
       /\ SourcedFieldSchema(b.overview)
       /\ SourcedFieldSchema(b.targetAudience)
       /\ \A i \in 1..Len(b.coreCoverage) : SourcedFieldSchema(b.coreCoverage[i])
       /\ \A i \in 1..Len(b.exclusions) : SourcedFieldSchema(b.exclusions[i])

(***************************************************************************)
(* Bounds and input samples                                                *)
(***************************************************************************)
GateMaxLen == 5
MaxMatchCount == 2
\* requests (search and toggle-status) a behaviour issues
MaxRequests == 2
\* the clock advances by TickHours up to MaxTime
TickHours == 24
MaxTime == 24
\* the longest name handed to the Normalizer
NormMaxLen == 3
\* the number of verify-token requests, and the last instant of their clock
MaxAttempts == 7
MaxRateTime == 3

\* a lower-case and an upper-case letter, a digit, an ASCII punctuation mark, a
\* space, the ideographic space, the line feed and an ideograph
GateAlphabet == {"a", "Z", "1", "!", " ", "U3000", "U000A", "U5B89"}

\* similarities in tenths; 0 is below every threshold the model uses
SimLevels == {0, 1, 2}
DefaultMatchThreshold == 1
DefaultMatchCount == 10

\* the queries of the retrieval and search specifications
QExact1 == ProductName(1)
QExact2 == ProductName(2)
QExact3 == ProductName(3)
QNorm2 == <<"U5B89", "U5FC3", "a">>
QNone == <<"z", "z", "p">>
QBlank == <<"U3002", "U3002">>
QDigits == <<"1", "2">>
QShort == <<"U5B89">>
RetrievalQueries == {QExact1, QExact2, QExact3, QNorm2, QNone, QBlank}
SearchQueries == {QExact1, QExact2, QExact3, QNone, QDigits, QShort}
\* the similarities of clauses 1..4 the search specification draws from: no
\* hit, the clause of product 1 alone, of product 3 alone, of products 2 and 3
SimSamples == {<<0, 0, 0, 0>>, <<2, 0, 0, 0>>, <<0, 0, 1, 0>>, <<0, 2, 1, 0>>}
\* what the specification of concurrent requests draws from
ProtocolQueries == {QExact1, QExact3}
ProtocolSims == {<<2, 0, 1, 0>>}
ProtocolTexts == {GroundedCard(1, 1), GroundedCard(3, 3)}
\* the product parameters of DELETE /api/admin/cache: the names of products 1
\* and 2, and the name of product 1 written with a space
QSpaced1 == <<"U5B89", " ", "U5FC3">>
AdminNames == {ProductName(1), ProductName(2), QSpaced1}
Workers == {"w1", "w2"}

(***************************************************************************)
(* The search handler (POST /api/search) and the toggle-status handler.    *)
(* A step is the code between two accesses to the shared tables products   *)
(* and search_cache: names and clauses do not change, so the calls that    *)
(* read only them (embedding, match_clauses, the fallback selects,         *)
(* getProductNames, the generation model) belong to the step they follow.  *)
(***************************************************************************)
\* 24 * 60 * 60 * 1000 ms, in hours
CACHE_TTL_HOURS == 24

\* hits is history: the number of rows the vector store had for the query
NoRetrieval == [rows |-> <<>>, matchedProductName |-> NoName, strategy |-> "NONE",
                hits |-> 0]
NoJson == [body |-> [shape |-> "none"], sources |-> <<>>, clauseMap |-> {},
           debugFields |-> FALSE]
NoResponse == [kind |-> "none", status |-> 0, reason |-> "NONE", message |-> "NONE",
               body |-> NoJson, cached |-> FALSE]
IdleRequest == [pc |-> "idle", query |-> <<>>, debug |-> FALSE, retrieval |-> NoRetrieval,
                cacheKey |-> NoName, jsonOut |-> NoJson, rpcs |-> NoRpcs,
                resp |-> NoResponse]
\* dirty and hadEntry are history: a search wrote the cache since the toggle
\* began; the cache held an entry of the product when it began
IdleToggle == [pc |-> "idle", productId |-> NullId, active |-> FALSE, dirty |-> FALSE,
               hadEntry |-> FALSE]
IdleAdmin == [pc |-> "idle", product |-> NoName, status |-> 0]

Respond(r, resp) ==
    [r EXCEPT !.pc = "done", !.resp = resp, !.jsonOut = NoJson, !.cacheKey = NoName,
              !.retrieval.rows = <<>>]

NotFound(query, reason, message) ==
    [NoResponse EXCEPT !.kind = "notFound", !.status = 200, !.reason = reason,
                       !.message = message]
Success(jsonOut, cached) ==
    [NoResponse EXCEPT !.kind = "success", !.status = 200, !.body = jsonOut,
                       !.cached = cached]
SchemaViolation(jsonOut) ==
    [NoResponse EXCEPT !.kind = "error", !.status = 500, !.reason = "SCHEMA_VIOLATION",
                       !.body = jsonOut]
InternalError == [NoResponse EXCEPT !.kind = "error", !.status = 500,
                                    !.reason = "INTERNAL_ERROR"]
ValidationError == [NoResponse EXCEPT !.kind = "error", !.status = 422,
                                      !.reason = "VALIDATION_ERROR"]

\* POST, lines 199-241: body validation, the Input Gate, then hybridRetrieve
\* the handler with the retrieval started before the gate is consulted
SearchStartRetrievingFirst(query, debug, env) ==
    LET fresh == [IdleRequest EXCEPT !.query = query, !.debug = debug]
        gibberishCheck == isGibberish(query)
        res == hybridRetrieve(query, DefaultMatchCount, env)
    IN IF Len(query) < 1 THEN Respond(fresh, ValidationError)
       ELSE IF gibberishCheck.isGibberish
       THEN Respond([fresh EXCEPT !.rpcs = res.rpcs],
                    NotFound(query, "INVALID_INPUT", gibberishCheck.reason))
       ELSE [fresh EXCEPT !.pc = "lookup",
                          !.retrieval = [rows |-> res.rows,
                                         matchedProductName |-> res.matchedProductName,
                                         strategy |-> res.strategy,
                                         hits |-> Len(env.matches)],
                          !.rpcs = res.rpcs]

SearchStart(query, debug, env) ==
    LET fresh == [IdleRequest EXCEPT !.query = query, !.debug = debug]
        gibberishCheck == isGibberish(query)
        res == hybridRetrieve(query, DefaultMatchCount, env)
    IN IF Len(query) < 1 THEN Respond(fresh, ValidationError)
       ELSE IF gibberishCheck.isGibberish
       THEN Respond(fresh, NotFound(query, "INVALID_INPUT", gibberishCheck.reason))
       ELSE [fresh EXCEPT !.pc = "lookup",
                          !.retrieval = [rows |-> res.rows,
                                         matchedProductName |-> res.matchedProductName,
                                         strategy |-> res.strategy,
                                         hits |-> Len(env.matches)],
                          !.rpcs = res.rpcs]

\* the select with an entry still served at the instant it expires
CacheSelectAtExpiry(rows, key, time) ==
    {e \in rows : e.query_hash = key /\ e.expires_at >= time}

\* select ... from search_cache where query_hash = key and expires_at > now
CacheSelect(rows, key, time) ==
    {e \in rows : e.query_hash = key /\ e.expires_at > time}

\* the handler calling the generation model a second time when it throws
SearchLookupRetryingGeneration(r, rows, time, cacheOn, text, genThrows) ==
    LET retr == r.retrieval
        lookedUp == retr.matchedProductName # NoName /\ cacheOn
        cacheKey == IF lookedUp THEN getCacheKey(retr.matchedProductName) ELSE NoName
        cachedResult == IF lookedUp THEN CacheSelect(rows, cacheKey, time) ELSE {}
        r1 == IF lookedUp THEN [r EXCEPT !.cacheKey = cacheKey, !.rpcs.cacheRead = 1]
              ELSE r
        r2 == [r1 EXCEPT !.rpcs.names = 1, !.rpcs.gen = 1]
        ctx == buildContext(retr.rows)
        jsonOut == Assemble(ParseText(text), ctx, r.debug)
    IN IF cachedResult # {}
       THEN Respond(r1, Success((CHOOSE e \in cachedResult : TRUE).result, TRUE))
       ELSE IF retr.rows = <<>> \/ retr.strategy \in {"NO_RESULTS", "FAILED"}
       THEN Respond(r1, NotFound(r.query, "NO_SIMILAR_PRODUCT", "NONE"))
       ELSE IF genThrows THEN Respond([r2 EXCEPT !.rpcs.gen = 2], InternalError)
       ELSE IF text.shape = "null" THEN Respond(r2, InternalError)
       ELSE IF ~SearchSuccessResponseSchema(jsonOut)
       THEN Respond(r2, SchemaViolation(jsonOut))
       ELSE IF cacheOn /\ cacheKey # NoName
       THEN [r2 EXCEPT !.pc = "store", !.jsonOut = jsonOut]
       ELSE Respond(r2, Success(jsonOut, FALSE))

\* POST, lines 243-407: the cache lookup and, on a miss, the notFound branch or
\* generation and schema validation.  text is the generation model's answer,
\* genThrows its failure.
SearchLookup(r, rows, time, cacheOn, text, genThrows) ==
    LET retr == r.retrieval
        lookedUp == retr.matchedProductName # NoName /\ cacheOn
        cacheKey == IF lookedUp THEN getCacheKey(retr.matchedProductName) ELSE NoName
        cachedResult == IF lookedUp THEN CacheSelect(rows, cacheKey, time) ELSE {}
        r1 == IF lookedUp THEN [r EXCEPT !.cacheKey = cacheKey, !.rpcs.cacheRead = 1]
              ELSE r
        r2 == [r1 EXCEPT !.rpcs.names = 1, !.rpcs.gen = 1]
        ctx == buildContext(retr.rows)
        jsonOut == Assemble(ParseText(text), ctx, r.debug)
    IN IF cachedResult # {}
       THEN Respond(r1, Success((CHOOSE e \in cachedResult : TRUE).result, TRUE))
       ELSE IF retr.rows = <<>> \/ retr.strategy \in {"NO_RESULTS", "FAILED"}
       THEN Respond(r1, NotFound(r.query, "NO_SIMILAR_PRODUCT", "NONE"))
       ELSE IF genThrows THEN Respond(r2, InternalError)
       ELSE IF text.shape = "null" THEN Respond(r2, InternalError)
       ELSE IF ~SearchSuccessResponseSchema(jsonOut)
       THEN Respond(r2, SchemaViolation(jsonOut))
       ELSE IF cacheOn /\ cacheKey # NoName
       THEN [r2 EXCEPT !.pc = "store", !.jsonOut = jsonOut]
       ELSE Respond(r2, Success(jsonOut, FALSE))

\* the update of hit_count the hit branch builds: (hit_count || 0) + 1, by id
HitUpdate(r, rows, time, cacheOn) ==
    LET retr == r.retrieval
        lookedUp == retr.matchedProductName # NoName /\ cacheOn
    IN IF lookedUp
       THEN {[id |-> e.id, hit_count |-> e.hit_count + 1] :
               e \in CacheSelect(rows, getCacheKey(retr.matchedProductName), time)}
       ELSE {}

\* the write as a plain insert, without the conflict clause
CacheInsert(rows, id, key, text, result, time) ==
    rows \cup {[id |-> id, query_hash |-> key, query_text |-> text,
                result |-> result, expires_at |-> time + CACHE_TTL_HOURS,
                hit_count |-> 0, served |-> 0]}

\* upsert(..., { onConflict: 'query_hash' }): the row of the key is replaced
\* in place (its id stays), or a new row gets the next id
CacheUpsert(rows, id, key, text, result, time) ==
    LET old == {e \in rows : e.query_hash = key}
        rowId == IF old = {} THEN id ELSE (CHOOSE e \in old : TRUE).id
    IN (rows \ old) \cup {[id |-> rowId, query_hash |-> key, query_text |-> text,
                           result |-> result, expires_at |-> time + CACHE_TTL_HOURS,
                           hit_count |-> 0, served |-> 0]}

\* delete from search_cache where query_hash = getCacheKey(name)
DeleteByHash(rows, name) == {e \in rows : e.query_hash # getCacheKey(name)}

\* the invalidation without its substring pass
DeleteByTextSkipped(rows, name) == rows

\* the substring pass as an equality on query_text
DeleteByTextEqual(rows, name) == {e \in rows : e.query_text # name}

\* delete from search_cache where query_text ilike %name%
DeleteByText(rows, name) == {e \in rows : ~ILikeContains(e.query_text, name)}

(***************************************************************************)
(* The initial values of the variables a specification does not use        *)
(***************************************************************************)
GateIdle == gq = <<>> /\ gres = [done |-> FALSE]
RetrieveIdle == rin = "unused" /\ rout = [done |-> FALSE]
NormalizeIdle == nin = "unused" /\ nout = [done |-> FALSE]
ContextIdle == cin = "unused" /\ cout = [done |-> FALSE]
RateIdle ==
    /\ rateLimitStore = <<>>
    /\ rateNow = 0
    /\ failures401 = <<>>
    /\ verified = [status |-> 0]
    /\ adminToken = FALSE
MainIdle ==
    /\ active = [p \in ProductIds |-> TRUE]
    /\ cache = {}
    /\ nextId = 1
    /\ now = 0
    /\ enableCache = FALSE
    /\ req = [w \in Workers |-> IdleRequest]
    /\ tog = IdleToggle
    /\ pendingHits = {}
    /\ issued = 0
    /\ adm = IdleAdmin
    /\ rev = [p \in ProductIds |-> 0]

(***************************************************************************)
(* SpecGate: isGibberish applied to every string over GateAlphabet of      *)
(* length at most GateMaxLen.                                              *)
(***************************************************************************)
InitGate ==
    /\ gq \in StringsUpTo(GateAlphabet, GateMaxLen)
    /\ gres = [done |-> FALSE]
    /\ RetrieveIdle
    /\ NormalizeIdle
    /\ RateIdle
    /\ MainIdle
    /\ ContextIdle

ApplyGate ==
    /\ ~gres.done
    /\ gres' = [done |-> TRUE, out |-> isGibberish(gq)]
    /\ UNCHANGED <<gq, retrVars, normVars, rateVars, ctxVars, mainVars>>

NextGate == ApplyGate

SpecGate == InitGate /\ [][NextGate]_vars

(***************************************************************************)
(* SpecRetrieve: one hybridRetrieve call, for every query of               *)
(* RetrievalQueries, every set of active products, every similarity of     *)
(* every clause, and every answer of the collaborators.                    *)
(***************************************************************************)
InitRetrieve ==
    /\ rin \in [query : {q \in RetrievalQueries : ~isGibberish(q).isGibberish},
                act : [ProductIds -> BOOLEAN],
                sim : [ClauseIds -> SimLevels],
                matchCount : 1..MaxMatchCount]
    /\ rout = [done |-> FALSE]
    /\ GateIdle
    /\ NormalizeIdle
    /\ RateIdle
    /\ MainIdle
    /\ ContextIdle

ApplyRetrieve ==
    /\ ~rout.done
    /\ \E env \in RetrievalEnvs(rin.query, rin.act, rin.sim, DefaultMatchThreshold,
                                rin.matchCount) :
          rout' = [done |-> TRUE, res |-> hybridRetrieve(rin.query, rin.matchCount, env),
                   matches |-> env.matches, failure |-> env.failure]
    /\ UNCHANGED <<rin, gateVars, normVars, rateVars, ctxVars, mainVars>>

NextRetrieve == ApplyRetrieve

SpecRetrieve == InitRetrieve /\ [][NextRetrieve]_vars

(***************************************************************************)
(* SpecNormalize: normalizeProductName applied to every name x over        *)
(* NormAlphabet of length at most NormMaxLen, to its own result, and to    *)
(* every y that is x with one whitespace or punctuation character of       *)
(* InsertedChars inserted.                                                 *)
(***************************************************************************)
\* letters of both cases, ideographs, the black-letter capital H (its NFKC
\* form is the upper-case H), a space, a hyphen, a full-width parenthesis
NormAlphabet == {"a", "A", "U5B89", "U5FC3", "U210C", " ", "-", "UFF08"}
\* a space, the ideographic space, a hyphen, a parenthesis, the full-width
\* exclamation mark
InsertedChars == {" ", "U3000", "-", "(", "UFF01"}

InsertAt(x, i, c) == SubSeq(x, 1, i) \o <<c>> \o SubSeq(x, i + 1, Len(x))

InitNormalize ==
    /\ nin \in UNION {{[x |-> x, y |-> y] :
                         y \in {x} \cup {InsertAt(x, i, c) : i \in 0..Len(x),
                                                            c \in InsertedChars}} :
                      x \in StringsUpTo(NormAlphabet, NormMaxLen)}
    /\ nout = [done |-> FALSE]
    /\ GateIdle
    /\ RetrieveIdle
    /\ RateIdle
    /\ MainIdle
    /\ ContextIdle

ApplyNormalize ==
    /\ ~nout.done
    /\ nout' = [done |-> TRUE,
                once |-> normalizeProductName(nin.x),
                twice |-> normalizeProductName(normalizeProductName(nin.x)),
                variant |-> getCacheKey(nin.y),
                key |-> getCacheKey(nin.x)]
    /\ UNCHANGED <<nin, gateVars, retrVars, rateVars, ctxVars, mainVars>>

NextNormalize == ApplyNormalize

SpecNormalize == InitNormalize /\ [][NextNormalize]_vars

(***************************************************************************)
(* SpecRate: POST /api/admin/verify-token and its in-memory rate limit.    *)
(* The handler has no await between its read and its write of the Map, so  *)
(* a request is one step.  Time is counted in units of five minutes.       *)
(***************************************************************************)
\* 5 * 60 * 1000 ms, 5 failures, 15 * 60 * 1000 ms
RATE_LIMIT_WINDOW == 1
MAX_FAILURES == 5
LOCKOUT_DURATION == 3

ClientIPs == {"ip1", "ip2"}
\* no Authorization header, a token that is not ADMIN_TOKEN, ADMIN_TOKEN
Tokens == {"none", "wrong", "right"}
\* lockedUntil: null
NoLock == -1
\* rateLimitStore.get(ip) === undefined
NoEntry == [present |-> FALSE, failures |-> 0, firstFailure |-> 0, lockedUntil |-> NoLock]

\* isRateLimited: the answer, and the Map after the deletions it makes
isRateLimited(store, ip, time) ==
    LET entry == store[ip]
    IN IF ~entry.present THEN [limited |-> FALSE, store |-> store]
       ELSE IF entry.lockedUntil # NoLock /\ time < entry.lockedUntil
       THEN [limited |-> TRUE, store |-> store]
       ELSE IF entry.lockedUntil # NoLock /\ time >= entry.lockedUntil
       THEN [limited |-> FALSE, store |-> [store EXCEPT ![ip] = NoEntry]]
       ELSE IF time - entry.firstFailure > RATE_LIMIT_WINDOW
       THEN [limited |-> FALSE, store |-> [store EXCEPT ![ip] = NoEntry]]
       ELSE [limited |-> FALSE, store |-> store]

recordFailure(store, ip, time) ==
    LET entry == store[ip]
        first == [present |-> TRUE, failures |-> 1, firstFailure |-> time,
                  lockedUntil |-> NoLock]
        failures == entry.failures + 1
    IN IF ~entry.present THEN [store EXCEPT ![ip] = first]
       ELSE IF time - entry.firstFailure > RATE_LIMIT_WINDOW
       THEN [store EXCEPT ![ip] = first]
       ELSE [store EXCEPT ![ip] =
                [entry EXCEPT !.failures = failures,
                              !.lockedUntil = IF failures >= MAX_FAILURES
                                              THEN time + LOCKOUT_DURATION
                                              ELSE entry.lockedUntil]]

clearFailures(store, ip) == [store EXCEPT ![ip] = NoEntry]

\* POST: the status of the answer and the Map it leaves
VerifyToken(store, ip, token, time, tokenSet) ==
    LET checked == isRateLimited(store, ip, time)
    IN IF checked.limited THEN [status |-> 429, store |-> checked.store]
       ELSE IF token = "none"
       THEN [status |-> 401, store |-> recordFailure(checked.store, ip, time)]
       ELSE IF ~tokenSet THEN [status |-> 500, store |-> checked.store]
       ELSE IF token # "right"
       THEN [status |-> 401, store |-> recordFailure(checked.store, ip, time)]
       ELSE [status |-> 200, store |-> clearFailures(checked.store, ip)]

InitRate ==
    /\ rateLimitStore = [ip \in ClientIPs |-> NoEntry]
    /\ rateNow = 0
    /\ failures401 = [ip \in ClientIPs |-> <<>>]
    /\ verified = [status |-> 0, n |-> 0, ip |-> "none", token |-> "none"]
    /\ adminToken \in BOOLEAN
    /\ GateIdle
    /\ RetrieveIdle
    /\ NormalizeIdle
    /\ MainIdle
    /\ ContextIdle

\* one verify-token request.  failures401 is history: the times of the
\* requests of the IP answered 401 since its last request answered 200.
Verify ==
    /\ verified.n < MaxAttempts
    /\ \E ip \in ClientIPs, token \in Tokens :
         LET out == VerifyToken(rateLimitStore, ip, token, rateNow, adminToken)
         IN /\ rateLimitStore' = out.store
            /\ verified' = [status |-> out.status, n |-> verified.n + 1, ip |-> ip,
                            token |-> token]
            /\ failures401' =
                  [failures401 EXCEPT ![ip] =
                      IF out.status = 401 THEN Append(@, rateNow)
                      ELSE IF out.status = 200 THEN <<>> ELSE @]
    /\ UNCHANGED <<rateNow, adminToken, gateVars, retrVars, normVars, ctxVars, mainVars>>

RateTick ==
    /\ rateNow < MaxRateTime
    /\ rateNow' = rateNow + 1
    /\ UNCHANGED <<rateLimitStore, failures401, verified, adminToken,
                   gateVars, retrVars, normVars, ctxVars, mainVars>>

NextRate == Verify \/ RateTick

SpecRate == InitRate /\ [][NextRate]_vars

(***************************************************************************)
(* SpecContext: buildContext applied to lists of retrieved rows, with the  *)
(* context string it returns.  A string is a sequence of runs              *)
(* [c |-> character, n |-> repetitions]; the text of a clause is a run of  *)
(* "x", preceded by lead blanks.                                           *)
(***************************************************************************)
MAX_CHARS == 6000
SNIPPET_CHARS == 2000
MaxRows == 2

LF == "LF"
Lit(chars) == [i \in DOMAIN chars |-> [c |-> chars[i], n |-> 1]]
Run(ch, n) == IF n = 0 THEN <<>> ELSE <<[c |-> ch, n |-> n]>>

RECURSIVE StrLen(_)
StrLen(s) == IF s = <<>> THEN 0 ELSE Head(s).n + StrLen(Tail(s))

\* String.prototype.slice(0, k)
RECURSIVE StrSlice(_, _)
StrSlice(s, k) ==
    IF s = <<>> \/ k = 0 THEN <<>>
    ELSE IF Head(s).n <= k THEN <<Head(s)>> \o StrSlice(Tail(s), k - Head(s).n)
    ELSE <<[c |-> Head(s).c, n |-> k]>>

\* Array.prototype.join
RECURSIVE Join(_, _)
Join(parts, sep) ==
    IF parts = <<>> THEN <<>>
    ELSE IF Len(parts) = 1 THEN parts[1]
    ELSE parts[1] \o sep \o Join(Tail(parts), sep)

DigitChars == <<"0", "1", "2", "3", "4", "5", "6", "7", "8", "9">>
\* the decimal digits of a clause id below 100, as template literals print it
IdDigits(id) ==
    IF id < 10 THEN <<DigitChars[id + 1]>>
    ELSE <<DigitChars[(id \div 10) + 1], DigitChars[(id % 10) + 1]>>

ClauseIdMarker == <<"U6761", "U6B3E", "I", "D", "#">>
ProductMarker == <<"U3010", "U4EA7", "U54C1", "U3011">>
PartSeparator == Lit(<<LF, LF, "-", "-", "-", LF, LF>>)

\* r.content || ''
ContentOrEmpty(content) == IF content.null THEN [null |-> FALSE, lead |-> 0, text |-> 0] ELSE content
\* String.prototype.trim
Trim(content) == [content EXCEPT !.lead = 0]
ContentString(content) == Run(" ", content.lead) \o Run("x", content.text)

\* productNames[r.product_id], null for a row without product (product_id 0)
RowProductName(r) == IF r.product_id = 0 THEN NoName ELSE ProductName(r.product_id)

ContextHeader(r) ==
    IF RowProductName(r) # NoName
    THEN Lit(ProductMarker \o RowProductName(r) \o <<" ", " ">> \o ClauseIdMarker \o IdDigits(r.id))
    ELSE Lit(ClauseIdMarker \o IdDigits(r.id))

RowContent(r) == Trim(ContentOrEmpty(r.content))

\* buildContext, lines 122-148, with its context string; a snippet is given
\* by its length
buildContextString(rows) ==
    LET kept == SelectSeq(rows, LAMBDA r : RowContent(r).text # 0)
        parts == [i \in DOMAIN kept |->
                     ContextHeader(kept[i]) \o Lit(<<LF>>) \o ContentString(RowContent(kept[i]))]
        ctx == Join(parts, PartSeparator)
        ids == {kept[i].id : i \in DOMAIN kept}
        lastOf(id) == kept[CHOOSE i \in DOMAIN kept :
                              kept[i].id = id /\ \A j \in DOMAIN kept : kept[j].id = id => j <= i]
    IN [context |-> IF StrLen(ctx) > MAX_CHARS THEN StrSlice(ctx, MAX_CHARS) ELSE ctx,
        sources |-> [i \in DOMAIN kept |->
                        [clauseId |-> kept[i].id, productName |-> RowProductName(kept[i])]],
        clauseMap |-> [id \in ids |->
                          [snippet |-> IF RowContent(lastOf(id)).text > SNIPPET_CHARS
                                       THEN SNIPPET_CHARS + 3
                                       ELSE RowContent(lastOf(id)).text,
                           productName |-> RowProductName(lastOf(id))]]]

\* the rows a retrieval can hand over: clause ids of one and two digits, with
\* or without product, content null, blank, short, or long enough for the
\* budget to end inside the second part
ContextClauseIds == {1, 3, 12}
ContentSamples ==
    {[null |-> TRUE, lead |-> 0, text |-> 0],
     [null |-> FALSE, lead |-> 2, text |-> 0],
     [null |-> FALSE, lead |-> 0, text |-> 3],
     [null |-> FALSE, lead |-> 1, text |-> 5972],
     [null |-> FALSE, lead |-> 0, text |-> 5980],
     [null |-> FALSE, lead |-> 0, text |-> 6100]}
ContextRows == [id : ContextClauseIds, product_id : {0, 1}, content : ContentSamples]
DistinctRowLists(n) ==
    {rows \in UNION {[1..k -> ContextRows] : k \in 0..n} :
        \A i, j \in DOMAIN rows : rows[i].id = rows[j].id => i = j}

InitContext ==
    /\ cin \in DistinctRowLists(MaxRows)
    /\ cout = [done |-> FALSE]
    /\ GateIdle
    /\ RetrieveIdle
    /\ NormalizeIdle
    /\ RateIdle
    /\ MainIdle

ApplyContext ==
    /\ ~cout.done
    /\ cout' = [done |-> TRUE, res |-> buildContextString(cin)]
    /\ UNCHANGED <<cin, gateVars, retrVars, normVars, rateVars, mainVars>>

NextContext == ApplyContext

SpecContext == InitContext /\ [][NextContext]_vars

(***************************************************************************)
(* Spec: search requests of the workers, toggle-status requests and the    *)
(* clock.  Products are listed in id order.  A cache row carries, besides  *)
(* its columns, the history field served: the hits answered from it since  *)
(* it was written.                                                         *)
(***************************************************************************)
\* an entry written under an older key rule (lower-casing only), for product 2
LegacyEntry ==
    [id |-> 1, query_hash |-> <<"U5B89", "U5FC3", " ", "a">>,
     query_text |-> ProductName(2),
     result |-> Assemble(GroundedCard(1, 1), buildContext(<<PlainRow(1)>>), FALSE),
     expires_at |-> CACHE_TTL_HOURS, hit_count |-> 0, served |-> 0]

\* the entry a search for product 1 wrote at time 0
SeedEntry ==
    CHOOSE e \in CacheUpsert({}, 1, getCacheKey(ProductName(1)), ProductName(1),
                             Assemble(GroundedCard(1, 1), buildContext(<<PlainRow(1)>>),
                                      FALSE), 0) : TRUE

\* that entry after one hit whose update of hit_count reached the table
HitEntry == [SeedEntry EXCEPT !.hit_count = 1, !.served = 1]

Init ==
    /\ active = [p \in ProductIds |-> TRUE]
    /\ enableCache \in BOOLEAN
    /\ cache \in (IF enableCache THEN {{}, {LegacyEntry}, {HitEntry}} ELSE {{}})
    /\ nextId = Cardinality(cache) + 1
    /\ now = 0
    /\ req = [w \in Workers |-> IdleRequest]
    /\ tog = IdleToggle
    /\ pendingHits = {}
    /\ issued = 0
    /\ adm = IdleAdmin
    /\ rev = [p \in ProductIds |-> 0]
    /\ GateIdle
    /\ RetrieveIdle
    /\ NormalizeIdle
    /\ RateIdle
    /\ ContextIdle

\* a request arrives at worker w and runs to the end of hybridRetrieve
Receive(w, budget, queries, debugs, sims) ==
    /\ req[w].pc \in {"idle", "done"}
    /\ issued < budget
    /\ \E query \in queries, debug \in debugs, sim \in sims :
         \E env \in OrderedEnvs(query, active, [c \in ClauseIds |-> sim[c]],
                                 DefaultMatchThreshold, DefaultMatchCount) :
            req' = [req EXCEPT ![w] = SearchStart(query, debug, env)]
    /\ issued' = issued + 1
    /\ UNCHANGED <<active, cache, nextId, now, enableCache, tog, pendingHits,
                   adm, rev,
                   gateVars, retrVars, normVars, rateVars, ctxVars>>

\* the cache lookup of worker w and what follows it, up to the cache write.
\* The hit branch builds its update of hit_count and does not await it: the
\* query is sent later (ApplyHitUpdate) or never.
Lookup(w, texts) ==
    /\ req[w].pc = "lookup"
    /\ \E text \in texts, genThrows \in BOOLEAN, sent \in BOOLEAN :
         LET updates == HitUpdate(req[w], cache, now, enableCache)
         IN /\ req' = [req EXCEPT ![w] = SearchLookup(req[w], cache, now, enableCache,
                                                      text, genThrows)]
            /\ pendingHits' = IF sent THEN pendingHits \cup updates ELSE pendingHits
            /\ cache' = {IF \E u \in updates : u.id = e.id
                         THEN [e EXCEPT !.served = e.served + 1] ELSE e : e \in cache}
    /\ UNCHANGED <<active, nextId, now, enableCache, tog, issued, adm, rev,
                   gateVars, retrVars, normVars, rateVars, ctxVars>>

\* the cache write of worker w and its response
Store(w) ==
    /\ req[w].pc = "store"
    /\ LET r == req[w]
           isNew == \A e \in cache : e.query_hash # r.cacheKey
       IN /\ cache' = CacheUpsert(cache, nextId, r.cacheKey,
                                  r.jsonOut.body.productName.value, r.jsonOut, now)
          /\ nextId' = IF isNew THEN nextId + 1 ELSE nextId
          /\ req' = [req EXCEPT ![w] = Respond([r EXCEPT !.rpcs.cacheWrite = 1],
                                                Success(r.jsonOut, FALSE))]
    /\ tog' = IF tog.pc = "idle" THEN tog ELSE [tog EXCEPT !.dirty = TRUE]
    /\ UNCHANGED <<active, now, enableCache, pendingHits, issued, adm, rev,
                   gateVars, retrVars, normVars, rateVars, ctxVars>>

\* a hit_count update that was sent reaches the table
ApplyHitUpdate ==
    /\ \E u \in pendingHits :
         /\ cache' = {IF e.id = u.id THEN [e EXCEPT !.hit_count = u.hit_count] ELSE e :
                        e \in cache}
         /\ pendingHits' = pendingHits \ {u}
    /\ UNCHANGED <<active, nextId, now, enableCache, req, tog, issued, adm, rev,
                   gateVars, retrVars, normVars, rateVars, ctxVars>>

\* toggle-status, lines 38-59: the product is read and its is_active updated
ToggleUpdate(budget) ==
    /\ tog.pc \in {"idle", "done"}
    /\ issued < budget
    /\ \E productId \in ProductIds, to \in BOOLEAN :
         /\ active' = [active EXCEPT ![productId] = to]
         /\ tog' = [pc |-> "delHash", productId |-> productId, active |-> to,
                    dirty |-> FALSE,
                    hadEntry |-> \E e \in cache :
                        \/ e.query_hash = getCacheKey(ProductName(productId))
                        \/ ILikeContains(e.query_text, ProductName(productId))]
    /\ issued' = issued + 1
    /\ UNCHANGED <<cache, nextId, now, enableCache, req, pendingHits, adm, rev,
                   gateVars, retrVars, normVars, rateVars, ctxVars>>

\* toggle-status answering without either delete
ToggleAnswerWithoutDeletes ==
    /\ tog.pc = "delHash"
    /\ tog' = [tog EXCEPT !.pc = "done"]
    /\ UNCHANGED <<active, cache, nextId, now, enableCache, req, pendingHits, issued,
                   adm, rev,
                   gateVars, retrVars, normVars, rateVars, ctxVars>>

\* toggle-status, lines 64-71
ToggleDeleteByHash ==
    /\ tog.pc = "delHash"
    /\ cache' = DeleteByHash(cache, ProductName(tog.productId))
    /\ tog' = [tog EXCEPT !.pc = "delText"]
    /\ UNCHANGED <<active, nextId, now, enableCache, req, pendingHits, issued,
                   adm, rev,
                   gateVars, retrVars, normVars, rateVars, ctxVars>>

\* toggle-status, lines 73-116
ToggleDeleteByText ==
    /\ tog.pc = "delText"
    /\ cache' = DeleteByText(cache, ProductName(tog.productId))
    /\ tog' = [tog EXCEPT !.pc = "done"]
    /\ UNCHANGED <<active, nextId, now, enableCache, req, pendingHits, issued,
                   adm, rev,
                   gateVars, retrVars, normVars, rateVars, ctxVars>>

\* DELETE /api/admin/cache, lines 125-148: the token is valid; the product
\* parameter is read, and a request without it is answered 400
AdminDeleteStart(budget) ==
    /\ adm.pc \in {"idle", "done"}
    /\ issued < budget
    /\ \E productName \in AdminNames \cup {NoName} :
         adm' = IF productName = NoName
                THEN [pc |-> "done", product |-> NoName, status |-> 400]
                ELSE [pc |-> "delHash", product |-> productName, status |-> 0]
    /\ issued' = issued + 1
    /\ UNCHANGED <<active, cache, nextId, now, enableCache, req, tog, pendingHits, rev,
                   gateVars, retrVars, normVars, rateVars, ctxVars>>

\* DELETE /api/admin/cache, lines 150-158
AdminDeleteByHash ==
    /\ adm.pc = "delHash"
    /\ cache' = DeleteByHash(cache, adm.product)
    /\ adm' = [adm EXCEPT !.pc = "delText"]
    /\ UNCHANGED <<active, nextId, now, enableCache, req, tog, pendingHits, issued, rev,
                   gateVars, retrVars, normVars, rateVars, ctxVars>>

\* DELETE /api/admin/cache, lines 160-184
AdminDeleteByText ==
    /\ adm.pc = "delText"
    /\ cache' = DeleteByText(cache, adm.product)
    /\ adm' = [adm EXCEPT !.pc = "done", !.status = 200]
    /\ UNCHANGED <<active, nextId, now, enableCache, req, tog, pendingHits, issued, rev,
                   gateVars, retrVars, normVars, rateVars, ctxVars>>

\* POST /api/products/update with new clause content for an existing product:
\* the clause row gets the content and its embedding, the audit log a row.
\* The handler has no statement on search_cache.
ProductUpdate(budget) ==
    /\ issued < budget
    /\ \E productId \in ProductIds : rev' = [rev EXCEPT ![productId] = @ + 1]
    /\ issued' = issued + 1
    /\ UNCHANGED <<active, cache, nextId, now, enableCache, req, tog, pendingHits, adm,
                   gateVars, retrVars, normVars, rateVars, ctxVars>>

Tick ==
    /\ now + TickHours <= MaxTime
    /\ now' = now + TickHours
    /\ UNCHANGED <<active, cache, nextId, enableCache, req, tog, pendingHits, issued,
                   adm, rev,
                   gateVars, retrVars, normVars, rateVars, ctxVars>>

Next ==
    \/ \E w \in Workers : Receive(w, MaxRequests, ProtocolQueries, {FALSE}, ProtocolSims)
    \/ \E w \in Workers : Lookup(w, ProtocolTexts)
    \/ \E w \in Workers : Store(w)
    \/ ApplyHitUpdate
    \/ ToggleUpdate(MaxRequests)
    \/ AdminDeleteStart(MaxRequests)
    \/ AdminDeleteByHash
    \/ AdminDeleteByText
    \/ ProductUpdate(MaxRequests)
    \/ ToggleDeleteByHash
    \/ ToggleDeleteByText
    \/ Tick

Spec == Init /\ [][Next]_vars

(***************************************************************************)
(* SpecSearch: one search request, from its arrival to its response, over  *)
(* every registry state, an empty or a seeded cache, and every answer of   *)
(* the collaborators the model has.                                        *)
(***************************************************************************)
InitSearch ==
    /\ active \in [ProductIds -> BOOLEAN]
    /\ enableCache \in BOOLEAN
    /\ cache \in {{}, {SeedEntry}, {LegacyEntry}}
    /\ nextId = Cardinality(cache) + 1
    /\ now = 0
    /\ req = [w \in Workers |-> IdleRequest]
    /\ tog = IdleToggle
    /\ pendingHits = {}
    /\ issued = 0
    /\ adm = IdleAdmin
    /\ rev = [p \in ProductIds |-> 0]
    /\ GateIdle
    /\ RetrieveIdle
    /\ NormalizeIdle
    /\ RateIdle
    /\ ContextIdle

NextSearch ==
    \/ Receive("w1", 1, SearchQueries \cup {<<>>}, BOOLEAN, SimSamples)
    \/ Lookup("w1", LLMTexts)
    \/ Store("w1")
    \/ ApplyHitUpdate

SpecSearch == InitSearch /\ [][NextSearch]_vars

(***************************************************************************)
(* SpecSequence: search requests of one worker, one after the other, with  *)
(* and without debug, over the same cache.                                 *)
(***************************************************************************)
NextSequence ==
    \/ Receive("w1", MaxRequests, ProtocolQueries, BOOLEAN, ProtocolSims)
    \/ Lookup("w1", ProtocolTexts)
    \/ Store("w1")
    \/ ApplyHitUpdate

SpecSequence == InitSearch /\ [][NextSequence]_vars

(***************************************************************************)
(* Claims on the Input Gate (SpecGate)                                     *)
(***************************************************************************)
OnlyOf(s, class) == Len(s) >= 1 /\ \A i \in 1..Len(s) : s[i] \in class
OneCharRepeated(s, n) == Len(s) >= n /\ \A i \in 1..Len(s) : s[i] = s[1]

C9_GateOrdering ==
    \A w \in Workers :
        (req[w].pc = "done" /\ Len(req[w].query) >= 1
            /\ isGibberish(req[w].query).isGibberish)
        => /\ req[w].resp.kind = "notFound"
           /\ req[w].resp.reason = "INVALID_INPUT"
           /\ req[w].resp.message # "NONE"
           /\ req[w].rpcs = NoRpcs

\* a query of digits has been rejected
C9_Witness ==
    /\ req["w1"].pc = "done"
    /\ req["w1"].query = QDigits
    /\ req["w1"].resp.reason = "INVALID_INPUT"

\* the non-null clause ids a card cites, and the cited fields of a card
CitedFields(card) ==
    {card.productName, card.overview, card.targetAudience}
        \cup Range(card.coreCoverage) \cup Range(card.exclusions)
CitationsResolve(jsonOut) ==
    SearchSuccessResponseSchema(jsonOut) =>
        \A f \in CitedFields(jsonOut.body) :
            f.sourceClauseId # NullId => f.sourceClauseId \in jsonOut.clauseMap
MarkerHasNoSource(jsonOut) ==
    SearchSuccessResponseSchema(jsonOut) =>
        \A f \in CitedFields(jsonOut.body) :
            f.value = FallbackMarker => f.sourceClauseId = NullId

\* C1: in every card returned as a success (generated or cached) and in every
\* card written to the cache, each non-null sourceClauseId is a key of the
\* card's own clauseMap, whatever the generation model returned.
C1_CitationIntegrity ==
    /\ \A w \in Workers :
         (req[w].pc = "done" /\ req[w].resp.kind = "success")
            => CitationsResolve(req[w].resp.body)
    /\ \A e \in cache : CitationsResolve(e.result)

\* C2: in every card returned as a success or written to the cache, a cited
\* field whose value is the fallback marker has a null sourceClauseId.
C2_FallbackMarkerRule ==
    /\ \A w \in Workers :
         (req[w].pc = "done" /\ req[w].resp.kind = "success")
            => MarkerHasNoSource(req[w].resp.body)
    /\ \A e \in cache : MarkerHasNoSource(e.result)

\* the bidirectional substring test on normalized names
NameMatches(query, p) ==
    \/ Includes(normalizeProductName(ProductName(p)), normalizeProductName(query))
    \/ Includes(normalizeProductName(query), normalizeProductName(ProductName(p)))

\* C8: a query that passes the gate, matches no active product name and has
\* zero similarity hits above the threshold ends with notFound, reason
\* NO_SIMILAR_PRODUCT, and the generation model is not invoked.
C8_NoSimilarProduct ==
    \A w \in Workers :
        (/\ req[w].pc = "done"
         /\ Len(req[w].query) >= 1
         /\ ~isGibberish(req[w].query).isGibberish
         /\ \A p \in ProductIds : active[p] => ~NameMatches(req[w].query, p)
         /\ req[w].retrieval.hits = 0)
        => /\ req[w].resp.kind = "notFound"
           /\ req[w].resp.reason = "NO_SIMILAR_PRODUCT"
           /\ req[w].rpcs.gen = 0

(***************************************************************************)
(* Claims on hybridRetrieve (SpecRetrieve)                                 *)
(***************************************************************************)
\* C7: for a query equal to the name of an active product and a vector-store
\* result with at least one clause of that product, the strategy is
\* PRODUCT_NAME_MATCH and every returned row has that product's id.
C7_ExactNameMatch ==
    \A p \in ProductIds :
        (/\ rout.done
         /\ rin.act[p]
         /\ rin.query = ProductName(p)
         /\ rout.failure \notin {"embed", "match"}
         /\ \E i \in 1..Len(rout.matches) : rout.matches[i].product_id = p)
        => /\ rout.res.strategy = "PRODUCT_NAME_MATCH"
           /\ \A i \in 1..Len(rout.res.rows) : rout.res.rows[i].product_id = p

FirstNameMatch(query) ==
    LET found == {p \in ProductIds : active[p] /\ NameMatches(query, p)}
    IN IF found = {} THEN NullId ELSE CHOOSE p \in found : \A q \in found : p <= q

\* C4: with caching enabled, the cache write of a successful search for a
\* name-matched product leaves exactly one entry under the product's
\* normalized key, with expiresAt = now + 24h and hitCount = 0; and a later
\* search whose product has an unexpired entry, with no toggle-status request
\* so far and no other search in flight, returns the card of that entry with
\* cached = true and calls no generation.
C4_CacheRoundTrip ==
    [][\A w \in Workers :
        /\ (req[w].pc = "store" /\ req'[w].pc = "done")
            => LET key == getCacheKey(req[w].retrieval.matchedProductName)
                   under == {e \in cache' : e.query_hash = key}
               IN /\ Cardinality(under) = 1
                  /\ \A e \in under : e.expires_at = now + 24 /\ e.hit_count = 0
                  /\ {e \in cache' : e.query_hash # key}
                        = {e \in cache : e.query_hash # key}
        /\ (/\ req[w].pc = "lookup" /\ req'[w].pc # "lookup"
            /\ enableCache
            /\ tog.pc = "idle"
            /\ \A v \in Workers \ {w} : req[v].pc = "idle"
            /\ FirstNameMatch(req[w].query) # NullId)
            => \A e \in cache :
                  (/\ e.query_hash = getCacheKey(ProductName(FirstNameMatch(req[w].query)))
                   /\ e.expires_at > now)
                  => /\ req'[w].pc = "done"
                     /\ req'[w].resp.kind = "success"
                     /\ req'[w].resp.cached
                     /\ req'[w].resp.body = e.result
                     /\ req'[w].rpcs.gen = 0]_vars

\* C5: every cache hit increases the stored hitCount of its entry by one: when
\* the searches ran one after the other on one worker and nothing is in
\* flight, the hitCount of an entry is the number of hits served from it.
C5_HitCounting ==
    (/\ req["w2"].pc = "idle"
     /\ req["w1"].pc \in {"idle", "done"}
     /\ pendingHits = {})
    => \A e \in cache : e.hit_count = e.served

\* C6: a request answered from the cache has issued no embedding call, no
\* vector-store match call and no generation call.
C6_LookupPrecedesRetrieval ==
    \A w \in Workers :
        (req[w].pc = "done" /\ req[w].resp.cached)
        => /\ req[w].rpcs.embed = 0
           /\ req[w].rpcs.match = 0
           /\ req[w].rpcs.gen = 0

(***************************************************************************)
(* Claims on the Normalizer (SpecNormalize)                                *)
(***************************************************************************)
\* C11: the Normalizer is idempotent: normalizing a normal form gives it back.
C11_NormalizerIdempotent ==
    nout.done => nout.twice = nout.once

\* C12: two names that differ only by inserted whitespace or punctuation have
\* the same cache key.
C12_VariantsShareKey ==
    nout.done => nout.variant = nout.key

(***************************************************************************)
(* Claims on failures of the search request (SpecSearch)                   *)
(***************************************************************************)
\* C13: when the embedding call, the match RPC or a lookup of the fallback
\* tier errors, hybridRetrieve resolves FAILED with no rows and the request
\* ends in a 500-class error, never in a success card or a notFound response.
C13_UpstreamFailureIsError ==
    \A w \in Workers :
        req[w].retrieval.strategy = "FAILED" =>
            /\ req[w].retrieval.rows = <<>>
            /\ req[w].pc = "done" =>
                   /\ req[w].resp.kind = "error"
                   /\ req[w].resp.status >= 500

\* the generation model's text is not JSON, or what it parses to does not
\* pass the card schema
Unacceptable(text) ==
    \/ text.shape = "notJson"
    \/ ~SearchSuccessResponseSchema(Assemble(ParseText(text), buildContext(<<>>), FALSE))

\* C14: whenever the generation model's text is not parseable JSON or does not
\* match the card schema, the request ends with error SCHEMA_VIOLATION carrying
\* the offending payload, and never with a success card.
C14_SchemaFailsClosed ==
    [][\A w \in Workers : \A text \in LLMTexts :
          (/\ req[w].pc = "lookup"
           /\ Unacceptable(text)
           /\ req'[w] = SearchLookup(req[w], cache, now, enableCache, text, FALSE)
           /\ req'[w].rpcs.gen = 1)
          => /\ req'[w].pc = "done"
             /\ req'[w].resp.kind = "error"
             /\ req'[w].resp.reason = "SCHEMA_VIOLATION"
             /\ req'[w].resp.body.body = ParseText(text)]_vars

(***************************************************************************)
(* Claims on the cache protocol (Spec), continued                          *)
(***************************************************************************)
\* the entries of the key of worker w's matched name that have not expired
LiveEntries(w) ==
    {e \in cache : /\ e.query_hash = getCacheKey(req[w].retrieval.matchedProductName)
                   /\ e.expires_at > now}

\* C15: a cache lookup never returns an entry whose expiresAt is at or before
\* the lookup time; a request that finds only such entries is handled as a
\* miss and goes on to generation.
C15_LazyExpiry ==
    [][\A w \in Workers :
          (req[w].pc = "lookup" /\ req'[w].pc # "lookup")
          => /\ req'[w].resp.cached
                  => \E e \in LiveEntries(w) : req'[w].resp.body = e.result
             /\ (/\ LiveEntries(w) = {}
                 /\ req[w].retrieval.rows # <<>>
                 /\ req[w].retrieval.strategy \notin {"NO_RESULTS", "FAILED"})
                  => /\ ~req'[w].resp.cached
                     /\ req'[w].rpcs.gen = 1]_vars

\* a request that found the entry of its key expired and has generated a card
C15_Witness ==
    \E w \in Workers :
        /\ req[w].pc = "store"
        /\ req[w].rpcs.gen = 1
        /\ \E e \in cache : e.query_hash = req[w].cacheKey /\ e.expires_at <= now

\* C16: after any interleaving of stores the cache holds at most one entry per
\* key, and a store leaves under its key the writer's card with
\* expiresAt = write time + 24h and hitCount = 0, also over an existing entry.
C16_KeyUniqueUnderUpsert ==
    [][/\ \A e1, e2 \in cache' : e1.query_hash = e2.query_hash => e1 = e2
       /\ \A w \in Workers :
            (req[w].pc = "store" /\ req'[w].pc = "done")
            => \E e \in cache' :
                  /\ e.query_hash = req[w].cacheKey
                  /\ e.result = req[w].jsonOut
                  /\ e.result = req'[w].resp.body
                  /\ e.expires_at = now + 24
                  /\ e.hit_count = 0]_vars

\* both workers have stored under one key, and a store has replaced an entry
\* that had counted a hit
C16_Witness ==
    /\ req["w1"].pc = "done" /\ req["w1"].rpcs.cacheWrite = 1
    /\ req["w2"].pc = "done" /\ req["w2"].rpcs.cacheWrite = 1
    /\ req["w1"].retrieval.matchedProductName = req["w2"].retrieval.matchedProductName
    /\ req["w1"].retrieval.matchedProductName = ProductName(1)
    /\ now = 24
    /\ \E e \in cache : e.id = HitEntry.id /\ e.query_hash = HitEntry.query_hash
                        /\ e.hit_count = 0 /\ e.expires_at = 48

\* what invalidate(name) removes: the entries under the key of the name, and
\* the entries whose stored text contains the name
UnderKey(name) == {e \in cache : e.query_hash = normalizeProductName(name)}
TextContains(name) == {e \in cache : ILikeContains(e.query_text, name)}

C18_UpdateClearsCache ==
    [][\A p \in ProductIds :
          rev'[p] # rev[p]
          => \A e \in cache' :
                (\/ e.query_hash = getCacheKey(ProductName(p))
                 \/ ILikeContains(e.query_text, ProductName(p)))
                => e.expires_at <= now']_vars

(***************************************************************************)
(* Claims on what is written to the cache (SpecSearch)                     *)
(***************************************************************************)
\* the columns of the rows of search_cache
StoredRows(rows) == {[f \in DOMAIN e \ {"served"} |-> e[f]] : e \in rows}

\* C19: a cache entry is written only by a request whose query name-matched an
\* active product and whose generated output passed schema validation; a
\* request ending in INVALID_INPUT, NO_SIMILAR_PRODUCT, SCHEMA_VIOLATION or an
\* internal error creates and modifies no entry.
C19_OnlyValidatedCardsCached ==
    [][/\ \A w \in Workers :
            /\ (/\ req[w].pc # "done" /\ req'[w].pc = "done"
                /\ req'[w].resp.kind \in {"notFound", "error"})
                 => /\ StoredRows(cache') = StoredRows(cache)
                    /\ req'[w].rpcs.cacheWrite = 0
            /\ (req[w].pc = "store" /\ req'[w].pc = "done")
                 => /\ FirstNameMatch(req[w].query) # NullId
                    /\ SearchSuccessResponseSchema(req[w].jsonOut)
                    /\ req'[w].resp.kind = "success"
       /\ StoredRows(cache') # StoredRows(cache)
            => \/ \E w \in Workers : req[w].pc = "store" /\ req'[w].pc = "done"
               \/ pendingHits' # pendingHits]_vars

\* a search has written its validated card; the table had no entry before
C19_Witness ==
    /\ req["w1"].pc = "done"
    /\ req["w1"].rpcs.cacheWrite = 1
    /\ req["w1"].resp.kind = "success"
    /\ nextId = 2
    /\ \E e \in cache : e.result = req["w1"].resp.body

(***************************************************************************)
(* Claims on the admin token rate limit (SpecRate)                         *)
(***************************************************************************)
\* five failed attempts of the IP, in the order they were made, lie within
\* one window, and the time is before the end of the lockout of the fifth
FiveFailuresWithinWindow(ip, time) ==
    LET seq == failures401[ip]
    IN \E i \in 1..Len(seq) :
          /\ i + MAX_FAILURES - 1 <= Len(seq)
          /\ seq[i + MAX_FAILURES - 1] - seq[i] <= RATE_LIMIT_WINDOW
          /\ time < seq[i + MAX_FAILURES - 1] + LOCKOUT_DURATION

\* C20: once an IP has made 5 failed verify-token attempts within a 5-minute
\* window, every further request from it is answered 429 until 15 minutes
\* after the fifth failure, also with the correct token; a request leaves the
\* records of the other IPs as they were.
C20_RateLimit ==
    [][verified'.n # verified.n
          => /\ FiveFailuresWithinWindow(verified'.ip, rateNow)
                  => verified'.status = 429
             /\ \A ip \in ClientIPs \ {verified'.ip} :
                    rateLimitStore'[ip] = rateLimitStore[ip]]_vars

(***************************************************************************)
(* Claims on the Retrieval Policy Engine (SpecRetrieve)                    *)
(***************************************************************************)
\* C21: under every resolved strategy hybridRetrieve returns at most
\* matchCount rows, although the vector store is asked for twice as many.
C21_Truncation ==
    (/\ rout.done
     /\ rout.res.strategy \in {"PRODUCT_NAME_MATCH", "PRODUCT_NAME_RERANK",
                               "VECTOR_ONLY", "FALLBACK_ILIKE"})
    => Len(rout.res.rows) <= rin.matchCount

\* the active products whose name matches the query of the call, either way
MatchedProducts ==
    {p \in ProductIds : rin.act[p] /\ NameMatches(rin.query, p)}

\* C22: whenever hybridRetrieve resolves PRODUCT_NAME_MATCH its rows are
\* non-empty and every row belongs to a product of priorityProductIds; no
\* clause of a product that did not name-match is in the Source list or the
\* ClauseMap built from them.
C22_NameMatchExclusive ==
    (rout.done /\ rout.res.strategy = "PRODUCT_NAME_MATCH")
    => LET rows == rout.res.rows
           ctx == buildContext(rows)
       IN /\ rows # <<>>
          /\ \A i \in 1..Len(rows) :
                /\ rows[i].product_id \in Range(rout.res.priorityProductIds)
                /\ rows[i].product_id \in MatchedProducts
          /\ \A c \in ctx.clauseMap \cup Range(ctx.sources) :
                ClauseProduct(c) \in MatchedProducts

\* a name matched, and the vector store also returned a clause of a product
\* that did not match: the hit is filtered out
C22_Witness ==
    /\ rout.done
    /\ rout.res.strategy = "PRODUCT_NAME_MATCH"
    /\ \E i \in 1..Len(rout.matches) : rout.matches[i].product_id \notin MatchedProducts
    /\ Len(rout.res.rows) < Len(rout.matches)

\* C23: when an active product name-matches the query and the vector store
\* returns hits none of which belongs to a matched product, the strategy is
\* PRODUCT_NAME_RERANK and the rows are the hits by descending similarity, cut
\* to matchCount.
C23_Rerank ==
    (/\ rout.done
     /\ rout.failure \notin {"embed", "match"}
     /\ MatchedProducts # {}
     /\ rout.matches # <<>>
     /\ \A i \in 1..Len(rout.matches) : rout.matches[i].product_id \notin MatchedProducts)
    => LET rows == rout.res.rows
           hits == Range(rout.matches)
       IN /\ rout.res.strategy = "PRODUCT_NAME_RERANK"
          /\ Len(rows) = Min(rin.matchCount, Len(rout.matches))
          /\ Range(rows) \subseteq hits
          /\ \A i, j \in 1..Len(rows) : i # j => rows[i] # rows[j]
          /\ \A i, j \in 1..Len(rows) : i < j => rows[i].similarity >= rows[j].similarity
          /\ \A h \in hits \ Range(rows) :
                \A i \in 1..Len(rows) : rows[i].similarity >= h.similarity

\* the case with more hits than matchCount and two different similarities
C23_Witness ==
    /\ rout.done
    /\ rout.res.strategy = "PRODUCT_NAME_RERANK"
    /\ Len(rout.matches) > rin.matchCount
    /\ \E i, j \in 1..Len(rout.matches) :
          rout.matches[i].similarity # rout.matches[j].similarity

\* the products the name-substring lookup of the call finds, and their clauses
LikeProducts == {p \in ProductIds : ILikeContains(ProductName(p), rin.query)}
LikeClauses == {c \in ClauseIds : ClauseProduct(c) \in LikeProducts}
\* an RPC of the call returned an error: the fallback selects are issued only
\* when the stage before them left nothing
RpcErrored ==
    \/ rout.failure \in {"embed", "match"}
    \/ rout.failure = "prodLike" /\ rout.matches = <<>>
    \/ rout.failure = "clauses" /\ rout.matches = <<>> /\ LikeProducts # {}

C25_NoRetries ==
    \A w \in Workers :
        /\ req[w].rpcs.embed <= 1
        /\ req[w].rpcs.match <= 1
        /\ req[w].rpcs.gen <= 1

\* the generation call of a request has failed and the request is answered
C25_Witness ==
    /\ req["w1"].pc = "done"
    /\ req["w1"].resp.reason = "INTERNAL_ERROR"
    /\ req["w1"].rpcs.gen = 1
    /\ req["w1"].rpcs.embed = 1
    /\ req["w1"].rpcs.match = 1

(***************************************************************************)
(* Claims on the context and the clause map (SpecContext)                  *)
(***************************************************************************)
\* the characters of a string, each run taken once: the text of a clause
\* holds no character of a header, so the headers read the same
Flat(s) == [i \in DOMAIN s |-> s[i].c]
IsDigitChar(ch) == \E d \in DOMAIN DigitChars : DigitChars[d] = ch
DigitValue(ch) == (CHOOSE d \in DOMAIN DigitChars : DigitChars[d] = ch) - 1
RECURSIVE NumberFrom(_, _, _)
NumberFrom(s, j, acc) ==
    IF j > Len(s) \/ ~IsDigitChar(s[j]) THEN acc
    ELSE NumberFrom(s, j + 1, acc * 10 + DigitValue(s[j]))
\* the clause ids a reader finds in the headers of a context
HeaderIds(context) ==
    LET s == Flat(context)
        m == Len(ClauseIdMarker)
    IN {NumberFrom(s, i + m, 0) :
          i \in {i \in 1..(Len(s) - m) :
                    SubSeq(s, i, i + m - 1) = ClauseIdMarker /\ IsDigitChar(s[i + m])}}
SourceIds(res) == {res.sources[i].clauseId : i \in DOMAIN res.sources}
EmptyRowIds == {cin[i].id : i \in {i \in DOMAIN cin : cin[i].content.null \/ cin[i].content.text = 0}}

\* C26: for every list of retrieved rows, each clause id in a header of the
\* assembled, length-bounded context is a key of the ClauseMap built from the
\* same rows, the clause ids of the Source list are exactly the ClauseMap
\* keys, and rows with empty content appear in none of the three.
C26_ContextCoverage ==
    cout.done =>
        /\ StrLen(cout.res.context) <= MAX_CHARS
        /\ HeaderIds(cout.res.context) \subseteq DOMAIN cout.res.clauseMap
        /\ SourceIds(cout.res) = DOMAIN cout.res.clauseMap
        /\ EmptyRowIds \cap (HeaderIds(cout.res.context) \cup SourceIds(cout.res)
                                \cup DOMAIN cout.res.clauseMap) = {}

(***************************************************************************)
(* Claims on the debug fields (SpecSequence)                               *)
(***************************************************************************)
\* C27: the response to a search request with debug = false never contains
\* the debug fields, whatever earlier requests did, also when it is served
\* from a cache entry written by a request that had debug = true.
C27_DebugIsolation ==
    \A w \in Workers :
        (req[w].pc = "done" /\ ~req[w].debug) => ~req[w].resp.body.debugFields

(***************************************************************************)
(* Claims on a search racing a toggle-status request (Spec)                *)
(***************************************************************************)
\* worker w has answered a search that matched the name of the product the
\* completed toggle-status request set inactive: its retrieval read the
\* registry before the toggle
SearchReadBeforeToggle(w) ==
    /\ req[w].pc = "done"
    /\ tog.pc = "done"
    /\ ~tog.active
    /\ req[w].retrieval.matchedProductName = ProductName(tog.productId)
UnexpiredUnderToggledKey ==
    {e \in cache : /\ e.query_hash = getCacheKey(ProductName(tog.productId))
                   /\ e.expires_at > now}

C29_InactiveNotRetrieved ==
    rout.done =>
        \A i \in DOMAIN rout.res.rows : rin.act[rout.res.rows[i].product_id]

\* C30: every query the gate accepts has a non-empty normal form, and a
\* product is put in priorityProductIds only if its normalized name is
\* non-empty, so that the two-way substring test never matches every active
\* product through an empty side.
C30_NonVacuousNameMatch ==
    rout.done =>
        /\ normalizeProductName(rin.query) # <<>>
        /\ \A p \in Range(rout.res.priorityProductIds) :
              normalizeProductName(ProductName(p)) # <<>>

====
